---- MODULE Spec2Model ----
(***************************************************************************)
(* Job/step orchestration of podcast-to-video: the in-memory job table,    *)
(* the persisted jobs.json, the processingLocks map, processAudioFile,     *)
(* processSpecificStep / restartSpecificStep / actuallyProcessStep, the    *)
(* start-step and restart-processing routes and the auto-resume scanner.   *)
(* One job is modelled; an action is the code that runs between two        *)
(* suspensions on real I/O (a file write, an external process).            *)
(***************************************************************************)
EXTENDS Integers, Sequences, FiniteSets, TLC

\* ---------------------------------------------------------------- bounds
MaxEvents == 2      \* route requests and process restarts over the whole behaviour
MaxRestarts == 1    \* process restarts
MaxCount == 2       \* cap of the per-step execution counter
MaxJobs == 2        \* jobs in the job table
MaxVersion == 3     \* mutations of one job record, the upload included
MaxWrites == 2      \* writeFile calls of saveJobs in flight at the same time

\* ------------------------------------------------------ program constants
NumSteps == 6       \* the six steps created by the upload route
VisualStep == 3     \* 'Visual Generation', the step run through the lock
AssemblyStep == 4   \* 'Video Assembly', two strategies

Steps == 0 .. (NumSteps - 1)
TaskIds == 0 .. MaxEvents     \* 0 is the run started by the scanner
NoHolder == -1
NoVal == 0
TypeErrorMessage == 99       \* reading .status of job.steps[-1]
ProgressDetails == 1         \* the details written by onProgress
IOErrorMessage == 98         \* the message of the error of a rejected writeFile

\* number of strategies of the stage operation of step i
NumStrategies(i) == IF i = VisualStep THEN 3 ELSE IF i = AssemblyStep THEN 2 ELSE 1
\* the details summary written by strategy k of step i
Details(i, k) == 10 * (i + 1) + k
\* the message of the error thrown by strategy k of step i
ErrorMessage(i, k) == 10 * (i + 1) + k
\* steps whose operation spawns ffmpeg with the job id in its arguments
FfmpegSteps == {1, 2, 3, 4}

VARIABLES job, disk, processingLocks, tasks, joinOrder, events,
          autoResumeHasRun, scanner, extAlive, restarts, forcedSteps, opCount,
          bootProcessing, strayChunks, store

vars == <<job, disk, processingLocks, tasks, joinOrder, events,
          autoResumeHasRun, scanner, extAlive, restarts, forcedSteps, opCount,
          bootProcessing, strayChunks, store>>

\* the variables of the single job and of its executions
jobVars == <<job, disk, processingLocks, tasks, joinOrder, events,
             autoResumeHasRun, scanner, extAlive, restarts, forcedSteps, opCount,
             bootProcessing, strayChunks>>

\* ------------------------------------------------------------ records
PendingStep == [status |-> "pending", progress |-> 0, error |-> NoVal,
                details |-> NoVal, startedAt |-> FALSE, completedAt |-> FALSE]

UploadedJob == [status |-> "uploaded", progress |-> 0, error |-> NoVal,
                completedAt |-> FALSE, outputPath |-> FALSE,
                steps |-> [i \in Steps |-> PendingStep]]

IdleTask == [kind |-> "none", pc |-> "idle", i |-> 0, k |-> 0, force |-> FALSE,
             origin |-> "none", waitOn |-> NoHolder, joined |-> NoHolder,
             psResult |-> "none", ranOp |-> FALSE, reran |-> FALSE,
             err |-> NoVal, outcome |-> "none", fromCompleted |-> FALSE]

\* Math.round(x / n * 100) for 0 <= x <= n
RoundPct(x, n) == (200 * x + n) \div (2 * n)

CompletedCount(j) == Cardinality({i \in Steps : j.steps[i].status = "completed"})

Min(a, b) == IF a < b THEN a ELSE b

\* findIndex over the steps, given the set of indices whose step satisfies
\* the predicate: the least of them, or -1
FindIndex(matching) ==
  IF matching /= {}
    THEN CHOOSE i \in matching : \A m \in matching : i <= m
    ELSE -1

IsProcessing(s) == s.status = "processing"
NotCompleted(s) == s.status /= "completed"

\* updateJobStep without `delete step.error`
UpdateJobStep_KeepError(j, i, status) ==
  LET s0 == j.steps[i]
      s1 == [s0 EXCEPT !.status = status,
                       !.progress = IF status = "completed" THEN 100
                                    ELSE IF status = "processing" THEN 50 ELSE 0]
      s2 == IF status = "processing"
              THEN [s1 EXCEPT !.startedAt = TRUE]
              ELSE IF status = "completed"
                     THEN [s1 EXCEPT !.completedAt = TRUE]
                     ELSE s1
      j1 == [j EXCEPT !.steps[i] = s2]
  IN  [j1 EXCEPT !.progress = RoundPct(CompletedCount(j1), NumSteps)]

\* the body of updateJobStep before its saveJobs
UpdateJobStep(j, i, status) ==
  LET s0 == j.steps[i]
      s1 == [s0 EXCEPT !.status = status,
                       !.progress = IF status = "completed" THEN 100
                                    ELSE IF status = "processing" THEN 50 ELSE 0]
      s2 == IF status = "processing"
              THEN [s1 EXCEPT !.startedAt = TRUE, !.error = NoVal]
              ELSE IF status = "completed"
                     THEN [s1 EXCEPT !.completedAt = TRUE, !.error = NoVal]
                     ELSE s1
      j1 == [j EXCEPT !.steps[i] = s2]
  IN  [j1 EXCEPT !.progress = RoundPct(CompletedCount(j1), NumSteps)]

\* 'Complete job' at the end of processAudioFile and of actuallyProcessStep
CompleteJob(j) ==
  [j EXCEPT !.status = "completed", !.progress = 100,
            !.completedAt = TRUE, !.outputPath = TRUE]

\* the catch block of actuallyProcessStep and the .catch of the start-step route
FailStep(j, i, msg) ==
  [j EXCEPT !.steps[i].status = "failed", !.steps[i].error = msg,
            !.status = "pending"]

\* the catch block of processAudioFile
FailJob(j, msg) == [j EXCEPT !.status = "failed", !.error = msg]

\* a reset that also puts every later step back to 'pending'
ResetStep_Cascade(j, i) ==
  LET j1 == [j EXCEPT !.steps = [m \in Steps |->
                IF m = i
                  THEN [j.steps[m] EXCEPT !.status = "processing", !.progress = 0,
                          !.startedAt = TRUE, !.completedAt = FALSE,
                          !.error = NoVal, !.details = NoVal]
                  ELSE IF m > i THEN PendingStep ELSE j.steps[m]]]
  IN  IF j1.status \in {"completed", "failed"}
        THEN [j1 EXCEPT !.status = "processing", !.error = NoVal]
        ELSE j1

\* the reset at the top of restartSpecificStep
ResetStep(j, i) ==
  LET j1 == [j EXCEPT !.steps[i].status = "processing", !.steps[i].progress = 0,
                      !.steps[i].startedAt = TRUE, !.steps[i].completedAt = FALSE,
                      !.steps[i].error = NoVal, !.steps[i].details = NoVal]
  IN  IF j1.status \in {"completed", "failed"}
        THEN [j1 EXCEPT !.status = "processing", !.error = NoVal]
        ELSE j1

\* ------------------------------------------------- the mutable state as one value
Cur == [job |-> job, disk |-> disk, locks |-> processingLocks, tasks |-> tasks,
        joinOrder |-> joinOrder, opCount |-> opCount]

Apply(S) ==
  /\ job' = S.job
  /\ disk' = S.disk
  /\ processingLocks' = S.locks
  /\ tasks' = S.tasks
  /\ joinOrder' = S.joinOrder
  /\ opCount' = S.opCount

\* saveJobs() called by task t, which resumes at pc when the write has returned:
\* the table is serialised at the call, and writes land in call order
Save(S, t, pc) ==
  [S EXCEPT !.tasks[t].pc = pc, !.disk = S.job]

Done(S, t, outcome) ==
  [S EXCEPT !.tasks[t].pc = "done", !.tasks[t].outcome = outcome,
            !.tasks[t].k = 0, !.tasks[t].err = NoVal]

\* the external operation of step i is invoked by task t
StartOp(S, t, i) ==
  [S EXCEPT !.tasks[t].pc = "op", !.tasks[t].i = i, !.tasks[t].k = 1,
            !.tasks[t].ranOp = TRUE,
            !.opCount[i] = Min(@ + 1, MaxCount)]

\* processingLocks.has(key) for some step of the job
HasActiveLocks(S) == \E i \in Steps : S.locks[i] /= NoHolder

\* ------------------------------------------- processSpecificStep and its callers
RECURSIVE PipeLoop(_, _, _)

\* a processAudioFile whose catch block rethrows to its caller
Continue_Rethrow(S, t, res) ==
  LET S1 == [S EXCEPT !.tasks[t].psResult = res]
      i == S.tasks[t].i
      msg == S.tasks[t].err
  IN  IF S.tasks[t].kind = "pipe"
        THEN IF res = "threw"
               THEN Save([S1 EXCEPT !.job = FailJob(@, msg)], t, "esc_save")
               ELSE PipeLoop(S1, t, i + 1)
        ELSE IF res = "threw"
               THEN Save([S1 EXCEPT !.job = FailStep(@, i, msg)], t, "rc_save")
               ELSE Done(S1, t, res)

\* what the caller of processSpecificStep does once the call returned res
\* ("true", "false") or threw: processAudioFile goes on with the next step or
\* enters its catch block; the start-step route's .catch marks the step failed
Continue(S, t, res) ==
  LET S1 == [S EXCEPT !.tasks[t].psResult = res]
      i == S.tasks[t].i
      msg == S.tasks[t].err
  IN  IF S.tasks[t].kind = "pipe"
        THEN IF res = "threw"
               THEN Save([S1 EXCEPT !.job = FailJob(@, msg)], t, "pa_catch_save")
               ELSE PipeLoop(S1, t, i + 1)
        ELSE IF res = "threw"
               THEN Save([S1 EXCEPT !.job = FailStep(@, i, msg)], t, "rc_save")
               ELSE Done(S1, t, res)

\* actuallyProcessStep up to its first suspension, then processingLocks.set:
\* pc "returned" when it returned false at once
ActuallyStart(S, t, i, force) ==
  LET S1 == [S EXCEPT !.locks[i] = t, !.tasks[t].i = i, !.tasks[t].force = force,
                      !.tasks[t].waitOn = NoHolder]
  IN  IF ~force /\ S.job.steps[i].status /= "processing"
        THEN [S1 EXCEPT !.tasks[t].pc = "returned"]
        ELSE IF force
               THEN [S1 EXCEPT !.tasks[t].pc = "cleanup"]
               ELSE StartOp(S1, t, i)

\* the finally block of a call whose actuallyProcessStep returned false at once
ReleaseReturned(S, t) ==
  IF S.tasks[t].pc = "returned"
    THEN Continue([S EXCEPT !.locks[S.tasks[t].i] = NoHolder], t, "false")
    ELSE S

\* the caller awaits the promise registered for the key instead of starting
JoinExisting(S, t, i, force) ==
  [S EXCEPT !.tasks[t].pc = "join", !.tasks[t].i = i, !.tasks[t].force = force,
            !.tasks[t].waitOn = S.locks[i], !.tasks[t].joined = S.locks[i],
            !.joinOrder = Append(@, t)]

\* processSpecificStep without the processingLocks.has(lockKey) branch
ProcessSpecificStep_NoJoin(S, t, i, force) ==
  ReleaseReturned(ActuallyStart(S, t, i, force), t)

ProcessSpecificStep(S, t, i, force) ==
  IF S.locks[i] /= NoHolder
    THEN JoinExisting(S, t, i, force)
    ELSE ReleaseReturned(ActuallyStart(S, t, i, force), t)

\* the for loop without `if (step.status === 'completed') continue`
PipeLoop_NoSkip(S, t, i) ==
  IF i >= NumSteps
    THEN Save([S EXCEPT !.job = CompleteJob(@)], t, "pa_done_save")
    ELSE IF i = VisualStep
           THEN ProcessSpecificStep([S EXCEPT !.tasks[t].i = i], t, i, FALSE)
           ELSE Save([S EXCEPT !.job = UpdateJobStep(@, i, "processing"),
                               !.tasks[t].i = i], t, "proc_save")

\* the for loop of processAudioFile entered at index i
PipeLoop(S, t, i) ==
  IF i >= NumSteps
    THEN Save([S EXCEPT !.job = CompleteJob(@)], t, "pa_done_save")
    ELSE IF S.job.steps[i].status = "completed"
           THEN PipeLoop(S, t, i + 1)
           ELSE IF i = VisualStep
                  THEN ProcessSpecificStep([S EXCEPT !.tasks[t].i = i], t, i, FALSE)
                  ELSE Save([S EXCEPT !.job = UpdateJobStep(@, i, "processing"),
                                      !.tasks[t].i = i], t, "proc_save")

\* the joiners of a rejected promise, in the order they joined: each catches,
\* starts its own actuallyProcessStep and overwrites the lock entry
RECURSIVE RetryAll(_, _)
RetryAll(S, ws) ==
  IF ws = <<>> THEN S
  ELSE LET j == Head(ws)
           S1 == ActuallyStart(S, j, S.tasks[j].i, S.tasks[j].force)
       IN  RetryAll([S1 EXCEPT !.tasks[j].reran = (S1.tasks[j].pc /= "returned")],
                    Tail(ws))

RECURSIVE ReleaseAll(_, _)
ReleaseAll(S, ws) ==
  IF ws = <<>> THEN S ELSE ReleaseAll(ReleaseReturned(S, Head(ws)), Tail(ws))

\* the joiners of a fulfilled promise return its value
RECURSIVE ContinueAll(_, _, _)
ContinueAll(S, ws, res) ==
  IF ws = <<>> THEN S
  ELSE ContinueAll(Continue([S EXCEPT !.tasks[Head(ws)].waitOn = NoHolder],
                            Head(ws), res), Tail(ws), res)

\* Settle whose finally block runs only when the promise was fulfilled
Settle_KeepOnThrow(S, t, res) ==
  LET i == S.tasks[t].i
      ws == SelectSeq(S.joinOrder, LAMBDA j : S.tasks[j].waitOn = t)
      S1 == [S EXCEPT !.locks[i] = IF res = "threw" THEN @ ELSE NoHolder,
                      !.joinOrder = SelectSeq(@, LAMBDA j : S.tasks[j].waitOn /= t)]
      S2 == IF res = "threw"
              THEN ReleaseAll(RetryAll(S1, ws), ws)
              ELSE ContinueAll(S1, ws, res)
  IN  Continue(S2, t, res)

\* the promise of task t's actuallyProcessStep settles: t's finally block
\* deletes the key, the joiners resume, then t's caller resumes
Settle(S, t, res) ==
  LET i == S.tasks[t].i
      ws == SelectSeq(S.joinOrder, LAMBDA j : S.tasks[j].waitOn = t)
      S1 == [S EXCEPT !.locks[i] = NoHolder,
                      !.joinOrder = SelectSeq(@, LAMBDA j : S.tasks[j].waitOn /= t)]
      S2 == IF res = "threw"
              THEN ReleaseAll(RetryAll(S1, ws), ws)
              ELSE ContinueAll(S1, ws, res)
  IN  Continue(S2, t, res)

\* processAudioFile up to its first saveJobs
PA_Entry(S, t) ==
  IF S.job.status = "processing" /\ HasActiveLocks(S)
    THEN Done(S, t, "skipped")
    ELSE Save([S EXCEPT !.job.status = "processing"], t, "pa_save")

NewTask(kind, origin, i, force) ==
  [IdleTask EXCEPT !.kind = kind, !.origin = origin, !.i = i, !.force = force]

\* a step or inline step of the pipeline runs under processSpecificStep's lock
Locked(t) == tasks[t].kind = "step" \/ tasks[t].i = VisualStep

Others == <<events, autoResumeHasRun, scanner, extAlive, restarts, forcedSteps,
           bootProcessing, strayChunks, store>>

\* ------------------------------------------------- the files in temp/
\* The output files of the job, as the set of the steps whose files exist.
\* The operation of a step writes its files before the step is marked
\* 'completed': the files of the 'completed' steps of j.
OutputsOf(j) == {i \in Steps : j.steps[i].status = "completed"}

\* cleanupJobFiles(jobId), called by a forced execution of whichever step:
\* the eight files of the job, those of every step, are deleted
CleanupJobFiles(fs) == {}

\* -------------------------------------------------------- the job table
JobIds == 1 .. MaxJobs

\* The table maps a job id to its record.  A record is abstracted to the
\* number of mutations it has had since it was created (NoVal: no entry).
Tables == [JobIds -> {NoVal} \cup (1 .. MaxVersion)]
EmptyTable == [id \in JobIds |-> NoVal]

\* jobs.json: missing, not parseable as JSON (empty, truncated, or the bytes
\* of two overlapping writes), or the JSON object written by saveJobs
FileMissing == [kind |-> "missing", data |-> EmptyTable]
FileUnparseable == [kind |-> "unparseable", data |-> EmptyTable]
FileOf(table) == [kind |-> "object", data |-> table]

\* JSON.parse(readFileSync(JOBS_PATH, 'utf-8')): throws unless the file holds
\* a JSON text
ParseFile(file) ==
  IF file.kind = "object"
    THEN [threw |-> FALSE, data |-> file.data]
    ELSE [threw |-> TRUE, data |-> EmptyTable]

\* a loadJobsSync without its try/catch
LoadJobsSync_NoCatch(file) ==
  LET parsed == ParseFile(file)
  IN  [threw |-> parsed.threw, table |-> parsed.data]

LoadJobsSync(file) ==
  LET parsed == ParseFile(file)
  IN  IF parsed.threw
        THEN [threw |-> FALSE, table |-> EmptyTable]
        ELSE [threw |-> FALSE, table |-> parsed.data]

\* the process is not running and jobs.json was never written
StoreDown == [table |-> EmptyTable, file |-> FileMissing, writes |-> {},
              up |-> "down"]

\* ------------------------------------------------------------------ Init
Init ==
  /\ job = UploadedJob
  /\ disk = UploadedJob
  /\ processingLocks = [i \in Steps |-> NoHolder]
  /\ tasks = [t \in TaskIds |-> IdleTask]
  /\ joinOrder = <<>>
  /\ events = 0
  /\ autoResumeHasRun = TRUE
  /\ scanner = "done"
  /\ extAlive = FALSE
  /\ restarts = 0
  /\ forcedSteps = {}
  /\ opCount = [i \in Steps |-> 0]
  /\ bootProcessing = {}
  /\ strayChunks = NoHolder
  /\ store = StoreDown

\* ------------------------------------------------------ route handlers
\* POST /api/restart-processing/[jobId]
RestartProcessingRoute ==
  /\ events < MaxEvents
  /\ job.status \notin {"completed", "processing"}
  /\ LET t == events + 1
         S1 == [Cur EXCEPT !.job.status = "processing",
                           !.tasks[t] = NewTask("pipe", "route", 0, FALSE)]
     IN  /\ Apply(Save(S1, t, "rp_save"))
         /\ events' = t
  /\ UNCHANGED <<store, autoResumeHasRun, scanner, extAlive, restarts, forcedSteps, bootProcessing,
                 strayChunks>>

\* POST /api/start-step/[jobId] with forceReprocess = false, without the check
\* that the previous steps are completed
StartStepRoute_NoOrderCheck(i) ==
  /\ events < MaxEvents
  /\ job.steps[i].status \notin {"completed", "processing"}
  /\ processingLocks[i] = NoHolder
  /\ LET t == events + 1
         S1 == [Cur EXCEPT !.job.status = "processing",
                           !.job.steps[i].status = "processing",
                           !.job.steps[i].startedAt = TRUE,
                           !.job.steps[i].error = NoVal,
                           !.tasks[t] = NewTask("step", "route", i, FALSE)]
     IN  /\ Apply(Save(S1, t, "rs_save"))
         /\ events' = t
  /\ UNCHANGED <<store, autoResumeHasRun, scanner, extAlive, restarts, forcedSteps, bootProcessing,
                 strayChunks>>

\* POST /api/start-step/[jobId] with forceReprocess = false
StartStepRoute(i) ==
  /\ events < MaxEvents
  /\ job.steps[i].status \notin {"completed", "processing"}
  /\ processingLocks[i] = NoHolder
  /\ \A m \in Steps : m < i => job.steps[m].status = "completed"
  /\ LET t == events + 1
         S1 == [Cur EXCEPT !.job.status = "processing",
                           !.job.steps[i].status = "processing",
                           !.job.steps[i].startedAt = TRUE,
                           !.job.steps[i].error = NoVal,
                           !.tasks[t] = NewTask("step", "route", i, FALSE)]
     IN  /\ Apply(Save(S1, t, "rs_save"))
         /\ events' = t
  /\ UNCHANGED <<store, autoResumeHasRun, scanner, extAlive, restarts, forcedSteps, bootProcessing,
                 strayChunks>>

\* the same request answered 400: the step is 'completed' or 'processing', its
\* key is locked, or a previous step is not 'completed'; the request is kept
\* as a record
StartStepRejected(i) ==
  /\ events < MaxEvents
  /\ \/ job.steps[i].status \in {"completed", "processing"}
     \/ processingLocks[i] /= NoHolder
     \/ \E m \in Steps : m < i /\ job.steps[m].status /= "completed"
  /\ events' = events + 1
  /\ tasks' = [tasks EXCEPT ![events + 1] =
                  [NewTask("step", "route", i, FALSE) EXCEPT !.pc = "rejected",
                                                             !.outcome = "rejected"]]
  /\ UNCHANGED <<store, job, disk, processingLocks, joinOrder, opCount, autoResumeHasRun,
                 scanner, extAlive, restarts, forcedSteps, bootProcessing, strayChunks>>

\* the forced request without the check of getProcessingLocks()
ForceStartRoute_NoLockCheck(i) ==
  /\ events < MaxEvents
  /\ LET t == events + 1
         S1 == [Cur EXCEPT !.job = ResetStep(@, i),
                           !.tasks[t] = [NewTask("step", "route", i, TRUE) EXCEPT
                                           !.fromCompleted =
                                              /\ job.steps[i].status = "completed"
                                              /\ job.steps[i].details /= NoVal]]
     IN  /\ Apply(Save(S1, t, "rr_save"))
         /\ events' = t
  /\ forcedSteps' = forcedSteps \cup {i}
  /\ UNCHANGED <<store, autoResumeHasRun, scanner, extAlive, restarts, bootProcessing, strayChunks>>

\* POST /api/start-step/[jobId] with forceReprocess = true: restartSpecificStep
\* up to its saveJobs
ForceStartRoute(i) ==
  /\ events < MaxEvents
  /\ processingLocks[i] = NoHolder
  /\ LET t == events + 1
         S1 == [Cur EXCEPT !.job = ResetStep(@, i),
                           !.tasks[t] = [NewTask("step", "route", i, TRUE) EXCEPT
                                           !.fromCompleted =
                                              /\ job.steps[i].status = "completed"
                                              /\ job.steps[i].details /= NoVal]]
     IN  /\ Apply(Save(S1, t, "rr_save"))
         /\ events' = t
  /\ forcedSteps' = forcedSteps \cup {i}
  /\ UNCHANGED <<store, autoResumeHasRun, scanner, extAlive, restarts, bootProcessing, strayChunks>>

\* --------------------------------------------- continuations after a saveJobs
\* restart-processing route after its saveJobs: processAudioFile is called
RestartProcessingSaved(t) ==
  /\ tasks[t].pc = "rp_save"
  /\ Apply(PA_Entry(Cur, t))
  /\ UNCHANGED Others

\* processAudioFile whose resume point ignores the 'processing' steps
PA_Body_FirstIncomplete(t) ==
  /\ tasks[t].pc = "pa_save"
  /\ LET startStep == FindIndex({i \in Steps : NotCompleted(job.steps[i])})
     IN  IF startStep = -1
           THEN Apply(Save([Cur EXCEPT !.job = FailJob(@, TypeErrorMessage)],
                           t, "pa_catch_save"))
           ELSE Apply(PipeLoop(Cur, t, startStep))
  /\ UNCHANGED Others

\* processAudioFile after its first saveJobs: the resume point and the loop
PA_Body(t) ==
  /\ tasks[t].pc = "pa_save"
  /\ LET p == FindIndex({i \in Steps : IsProcessing(job.steps[i])})
         startStep == IF p = -1
                        THEN FindIndex({i \in Steps : NotCompleted(job.steps[i])})
                        ELSE p
     IN  IF startStep = -1
           THEN Apply(Save([Cur EXCEPT !.job = FailJob(@, TypeErrorMessage)],
                           t, "pa_catch_save"))
           ELSE Apply(PipeLoop(Cur, t, startStep))
  /\ UNCHANGED Others

\* processAudioFile, inline step: updateJobStep(i,'processing') returned, the
\* stage operation is invoked
InlineProcessingSaved(t) ==
  /\ tasks[t].pc = "proc_save"
  /\ Apply(StartOp(Cur, t, tasks[t].i))
  /\ UNCHANGED Others

\* start-step route after its saveJobs: processSpecificStep(jobId, i, false)
StartStepSaved(t) ==
  /\ tasks[t].pc = "rs_save"
  /\ Apply(ProcessSpecificStep(Cur, t, tasks[t].i, FALSE))
  /\ UNCHANGED Others

\* restartSpecificStep after its saveJobs: processSpecificStep(jobId, i, true)
RestartSaved(t) ==
  /\ tasks[t].pc = "rr_save"
  /\ Apply(ProcessSpecificStep(Cur, t, tasks[t].i, TRUE))
  /\ UNCHANGED Others

\* actuallyProcessStep with forceReprocess: cleanupJobFiles returned
CleanupDone(t) ==
  /\ tasks[t].pc = "cleanup"
  /\ Apply(StartOp(Cur, t, tasks[t].i))
  /\ UNCHANGED Others

\* ------------------------------------------------- the stage operation
\* a chunk of the streaming strategy of Visual Generation is done: onProgress
\* writes the progress into step.details and calls saveJobs without awaiting
OpProgress(t) ==
  /\ tasks[t].pc = "op"
  /\ tasks[t].i = VisualStep
  /\ tasks[t].k = 1
  /\ job.steps[VisualStep].details /= ProgressDetails
  /\ Apply([Cur EXCEPT !.job.steps[VisualStep].details = ProgressDetails,
                       !.disk = [Cur.job EXCEPT !.steps[VisualStep].details = ProgressDetails]])
  /\ UNCHANGED Others

\* a chunk left running by a failed streaming strategy ends: when it succeeded
\* its onProgress callback runs as above
StrayChunkDone ==
  /\ strayChunks /= NoHolder
  /\ strayChunks' = NoHolder
  /\ \E succeeded \in BOOLEAN :
       IF succeeded
         THEN /\ job' = [job EXCEPT !.steps[VisualStep].details = ProgressDetails]
              /\ disk' = job'
         ELSE UNCHANGED <<job, disk>>
  /\ UNCHANGED <<store, processingLocks, tasks, joinOrder, opCount, events, autoResumeHasRun,
                 scanner, extAlive, restarts, forcedSteps, bootProcessing>>

\* strategy k of the operation succeeds: details are written, saveJobs
OpSucceed(t) ==
  /\ tasks[t].pc = "op"
  /\ LET i == tasks[t].i
     IN  Apply(Save([Cur EXCEPT !.job.steps[i].details = Details(i, tasks[t].k)],
                    t, "det_save"))
  /\ UNCHANGED Others

\* strategy k fails and the step has a further strategy; when the streaming
\* strategy of Visual Generation fails on one chunk, the other chunks of its
\* batch may still be running
OpFallback(t) ==
  /\ tasks[t].pc = "op"
  /\ tasks[t].k < NumStrategies(tasks[t].i)
  /\ tasks' = [tasks EXCEPT ![t].k = @ + 1]
  /\ strayChunks' \in (IF tasks[t].i = VisualStep /\ tasks[t].k = 1
                         THEN {t, strayChunks} ELSE {strayChunks})
  /\ UNCHANGED <<store, job, disk, processingLocks, joinOrder, opCount, events,
                 autoResumeHasRun, scanner, extAlive, restarts, forcedSteps,
                 bootProcessing>>

\* the last strategy fails: the catch block of actuallyProcessStep (step run
\* under the lock) or of processAudioFile (inline step)
OpThrow(t) ==
  /\ tasks[t].pc = "op"
  /\ tasks[t].k = NumStrategies(tasks[t].i)
  /\ LET i == tasks[t].i
         msg == ErrorMessage(i, tasks[t].k)
         S1 == [Cur EXCEPT !.tasks[t].err = msg]
     IN  IF Locked(t)
           THEN Apply(Save([S1 EXCEPT !.job = FailStep(@, i, msg)], t, "catch_save"))
           ELSE Apply(Save([S1 EXCEPT !.job = FailJob(@, msg)], t, "pa_catch_save"))
  /\ UNCHANGED Others

\* the details are saved: updateJobStep(i,'completed')
DetailsSaved(t) ==
  /\ tasks[t].pc = "det_save"
  /\ Apply(Save([Cur EXCEPT !.job = UpdateJobStep(@, tasks[t].i, "completed")],
                t, "comp_save"))
  /\ UNCHANGED Others

\* processAudioFile, inline step: updateJobStep(i,'completed') returned, next i
InlineCompletedSaved(t) ==
  /\ tasks[t].pc = "comp_save"
  /\ ~Locked(t)
  /\ Apply(PipeLoop(Cur, t, tasks[t].i + 1))
  /\ UNCHANGED Others

\* actuallyProcessStep: 'Check if all steps are completed'
LockedCompletedSaved(t) ==
  /\ tasks[t].pc = "comp_save"
  /\ Locked(t)
  /\ LET allCompleted == \A i \in Steps : job.steps[i].status = "completed"
     IN  Apply(Save([Cur EXCEPT !.job = IF allCompleted THEN CompleteJob(@)
                                       ELSE [@ EXCEPT !.status = "pending"]],
                    t, "status_save"))
  /\ UNCHANGED Others

\* actuallyProcessStep returns true
StatusSaved(t) ==
  /\ tasks[t].pc = "status_save"
  /\ Apply(Settle(Cur, t, "true"))
  /\ UNCHANGED Others

\* actuallyProcessStep rethrows after the saveJobs of its catch block
CatchSaved(t) ==
  /\ tasks[t].pc = "catch_save"
  /\ Apply(Settle(Cur, t, "threw"))
  /\ UNCHANGED Others

\* processAudioFile returns from its catch block
PA_CatchSaved(t) ==
  /\ tasks[t].pc = "pa_catch_save"
  /\ Apply(Done(Cur, t, "caught"))
  /\ UNCHANGED Others

\* processAudioFile returns after 'Complete job'
PA_DoneSaved(t) ==
  /\ tasks[t].pc = "pa_done_save"
  /\ Apply(Done(Cur, t, "ok"))
  /\ UNCHANGED Others

\* the .catch handler of the start-step route has saved
RouteCatchSaved(t) ==
  /\ tasks[t].pc = "rc_save"
  /\ Apply(Done(Cur, t, "threw"))
  /\ UNCHANGED Others

\* ------------------------------------------------- auto-resume scanner
\* job.status === 'processing' || job.steps.some(s => s.status === 'processing')
NeedsResume_StatusOnly(j) == j.status = "processing"

NeedsResume(j) ==
  j.status = "processing" \/ \E i \in Steps : j.steps[i].status = "processing"

HasActiveStep ==
  \E i \in Steps : job.steps[i].status = "processing" /\ processingLocks[i] /= NoHolder

\* what `ps aux | grep ffmpeg.*jobId` can print
ProbeResults ==
  IF extAlive THEN {TRUE}
  ELSE IF \/ \E t \in TaskIds : (tasks[t].pc = "op" /\ tasks[t].i \in FfmpegSteps)
          \/ strayChunks /= NoHolder
         THEN {TRUE, FALSE}
         ELSE {FALSE}

\* the grace delay elapsed: the job is inspected and the probe is events
ScanAfterDelay ==
  /\ scanner = "delay"
  /\ scanner' = IF NeedsResume(job) /\ ~HasActiveStep THEN "probe" ELSE "done"
  /\ UNCHANGED <<store, job, disk, processingLocks, tasks, joinOrder, events,
                 autoResumeHasRun, extAlive, restarts, forcedSteps, opCount,
                 bootProcessing, strayChunks>>

\* the probe's callback: resume with processAudioFile unless processes were found
ProbeDone ==
  /\ scanner = "probe"
  /\ scanner' = "done"
  /\ \E hasProcesses \in ProbeResults :
       IF hasProcesses
         THEN UNCHANGED <<job, disk, processingLocks, tasks, joinOrder, opCount>>
         ELSE Apply(PA_Entry([Cur EXCEPT !.tasks[0] = NewTask("pipe", "scanner", 0, FALSE)], 0))
  /\ UNCHANGED <<store, events, autoResumeHasRun, extAlive, restarts, forcedSteps,
                 bootProcessing, strayChunks>>

\* ------------------------------------------------- process restart
\* the process stops and is started again: loadJobsSync reads jobs.json, the
\* locks and all executions are gone, the scanner is armed; an ffmpeg child
\* may survive
Crash ==
  /\ restarts < MaxRestarts
  /\ events < MaxEvents
  /\ restarts' = restarts + 1
  /\ events' = events + 1
  /\ job' = disk
  /\ disk' = disk
  /\ bootProcessing' = {i \in Steps : disk.steps[i].status = "processing"}
  /\ processingLocks' = [i \in Steps |-> NoHolder]
  /\ tasks' = [t \in TaskIds |-> IdleTask]
  /\ joinOrder' = <<>>
  /\ opCount' = [i \in Steps |-> 0]
  /\ autoResumeHasRun' = TRUE
  /\ scanner' = "delay"
  /\ extAlive' \in (IF \/ extAlive
                         \/ \E t \in TaskIds : (tasks[t].pc = "op" /\ tasks[t].i \in FfmpegSteps)
                         \/ strayChunks /= NoHolder
                      THEN {TRUE, FALSE} ELSE {FALSE})
  /\ strayChunks' = NoHolder
  /\ UNCHANGED <<forcedSteps, store>>

\* DELETE /api/debug: resetAutoResumeFlag() clears the one-shot flag; the
\* scanner, which read the flag when the module was loaded, is not started
ResetAutoResumeFlag_Rescan ==
  /\ autoResumeHasRun
  /\ autoResumeHasRun' = FALSE
  /\ scanner' = "delay"
  /\ UNCHANGED <<store, job, disk, processingLocks, tasks, joinOrder, events,
                 extAlive, restarts, forcedSteps, opCount, bootProcessing,
                 strayChunks>>

ResetAutoResumeFlag ==
  /\ autoResumeHasRun
  /\ autoResumeHasRun' = FALSE
  /\ UNCHANGED <<store, job, disk, processingLocks, tasks, joinOrder, events, scanner,
                 extAlive, restarts, forcedSteps, opCount, bootProcessing,
                 strayChunks>>

\* clearStuckProcessingStates: every 'processing' step goes back to 'pending'
ClearStuck(j) ==
  LET stuck == {i \in Steps : j.steps[i].status = "processing"}
      j1 == [j EXCEPT !.steps = [i \in Steps |->
                IF i \in stuck
                  THEN [j.steps[i] EXCEPT !.status = "pending", !.progress = 0,
                                          !.error = NoVal]
                  ELSE j.steps[i]]]
  IN  IF stuck /= {} THEN [j1 EXCEPT !.status = "pending"] ELSE j

\* POST /api/debug/locks/[jobId]: clearStuckProcessingStates deletes every key
\* of the job from processingLocks, resets the 'processing' steps and saves
ClearStuckRoute ==
  /\ HasActiveLocks(Cur) \/ ClearStuck(job) /= job
  /\ processingLocks' = [i \in Steps |-> NoHolder]
  /\ job' = ClearStuck(job)
  /\ disk' = IF job' /= job THEN job' ELSE disk
  /\ UNCHANGED <<store, tasks, joinOrder, events, autoResumeHasRun, scanner, extAlive,
                 restarts, forcedSteps, opCount, bootProcessing, strayChunks>>

\* a surviving ffmpeg child exits
ExtExit ==
  /\ extAlive
  /\ extAlive' = FALSE
  /\ UNCHANGED <<store, job, disk, processingLocks, tasks, joinOrder, events,
                 autoResumeHasRun, scanner, restarts, forcedSteps, opCount,
                 bootProcessing, strayChunks>>

\* ------------------------------------------------------------ specification
\* the last strategy of task t's stage operation throws in this transition
OpThrows(t) == tasks[t].pc = "op" /\ tasks'[t].pc \in {"catch_save", "pa_catch_save"}

TaskStep(t) ==
  \/ RestartProcessingSaved(t)
  \/ PA_Body(t)
  \/ InlineProcessingSaved(t)
  \/ StartStepSaved(t)
  \/ RestartSaved(t)
  \/ CleanupDone(t)
  \/ OpProgress(t)
  \/ OpSucceed(t)
  \/ OpFallback(t)
  \/ OpThrow(t)
  \/ DetailsSaved(t)
  \/ InlineCompletedSaved(t)
  \/ LockedCompletedSaved(t)
  \/ StatusSaved(t)
  \/ CatchSaved(t)
  \/ PA_CatchSaved(t)
  \/ PA_DoneSaved(t)
  \/ RouteCatchSaved(t)

Next ==
  \/ RestartProcessingRoute
  \/ \E i \in Steps : StartStepRoute(i)
  \/ \E i \in Steps : StartStepRejected(i)
  \/ \E i \in Steps : ForceStartRoute(i)
  \/ \E t \in TaskIds : TaskStep(t)
  \/ ScanAfterDelay
  \/ ProbeDone
  \/ StrayChunkDone
  \/ ClearStuckRoute
  \/ ResetAutoResumeFlag
  \/ Crash
  \/ ExtExit

Spec == Init /\ [][Next]_vars

\* the process starts with a jobs.json in which steps 0 and 1 of the job are
\* completed and step 2 was interrupted while 'processing': the job is
\* 'processing' (processAudioFile or a plain start-step was running) or
\* 'pending' (a forced restart of step 2 was running); the scanner is armed,
\* and the interrupted request counts as the first event
CompletedStep(i) ==
  [status |-> "completed", progress |-> 100, error |-> NoVal,
   details |-> Details(i, 1), startedAt |-> TRUE, completedAt |-> TRUE]

InterruptedStep ==
  [status |-> "processing", progress |-> 50, error |-> NoVal,
   details |-> NoVal, startedAt |-> TRUE, completedAt |-> FALSE]

PartialJob(status) ==
  [UploadedJob EXCEPT !.status = status, !.progress = RoundPct(2, NumSteps),
                      !.steps[0] = CompletedStep(0), !.steps[1] = CompletedStep(1),
                      !.steps[2] = InterruptedStep]

InitPartial ==
  /\ job \in {PartialJob("processing"), PartialJob("pending")}
  /\ disk = job
  /\ processingLocks = [i \in Steps |-> NoHolder]
  /\ tasks = [t \in TaskIds |-> IdleTask]
  /\ joinOrder = <<>>
  /\ events = 1
  /\ autoResumeHasRun = TRUE
  /\ scanner = "delay"
  /\ extAlive = FALSE
  /\ restarts = 0
  /\ forcedSteps = {}
  /\ opCount = [i \in Steps |-> 0]
  /\ bootProcessing = {2}
  /\ strayChunks = NoHolder
  /\ store = StoreDown

SpecPartial == InitPartial /\ [][Next]_vars

\* the process starts with a jobs.json in which steps 0 and 1 of the job are
\* completed and step 2 has failed: actuallyProcessStep left the step 'failed'
\* with its message and the job 'pending'; the failed request counts as the
\* first event, and an ffmpeg child of the failed attempt may still be alive
FailedStep(i) ==
  [status |-> "failed", progress |-> 0, error |-> ErrorMessage(i, NumStrategies(i)),
   details |-> NoVal, startedAt |-> TRUE, completedAt |-> FALSE]

FailedJob ==
  [UploadedJob EXCEPT !.status = "pending", !.progress = RoundPct(2, NumSteps),
                      !.steps[0] = CompletedStep(0), !.steps[1] = CompletedStep(1),
                      !.steps[2] = FailedStep(2)]

InitFailed ==
  /\ job = FailedJob
  /\ disk = job
  /\ processingLocks = [i \in Steps |-> NoHolder]
  /\ tasks = [t \in TaskIds |-> IdleTask]
  /\ joinOrder = <<>>
  /\ events = 1
  /\ autoResumeHasRun = TRUE
  /\ scanner = "delay"
  /\ extAlive \in BOOLEAN
  /\ restarts = 0
  /\ forcedSteps = {}
  /\ opCount = [i \in Steps |-> 0]
  /\ bootProcessing = {}
  /\ strayChunks = NoHolder
  /\ store = StoreDown

SpecFailed == InitFailed /\ [][Next]_vars

\* --------------------------------------------- failing writes of jobs.json
\* a caller of processAudioFile that has no .catch handler
Escape_NoCatch(S, t, msg) ==
  Save([S EXCEPT !.tasks[t].err = msg], t, "esc_save")

\* processAudioFile rejects with msg: the .catch handler of its caller (the
\* restart-processing route, the scanner) marks the job failed and saves
Escape(S, t, msg) ==
  Save([S EXCEPT !.job = FailJob(@, msg), !.tasks[t].err = msg], t, "esc_save")

\* the saveJobs that task t, running processAudioFile, is awaiting is rejected
SaveFails(t) ==
  /\ tasks[t].kind = "pipe"
  /\ LET pc == tasks[t].pc
         S1 == [Cur EXCEPT !.tasks[t].err = IOErrorMessage]
     IN  \/ /\ pc \in {"pa_save", "pa_catch_save"}
            /\ Apply(Escape(Cur, t, IOErrorMessage))
         \/ /\ \/ pc \in {"proc_save", "det_save", "comp_save"} /\ ~Locked(t)
               \/ pc = "pa_done_save"
            /\ Apply(Save([S1 EXCEPT !.job = FailJob(@, IOErrorMessage)],
                          t, "pa_catch_save"))
         \/ /\ pc \in {"det_save", "comp_save", "status_save"} /\ Locked(t)
            /\ Apply(Save([S1 EXCEPT !.job = FailStep(@, tasks[t].i, IOErrorMessage)],
                          t, "catch_save"))
         \/ /\ pc = "catch_save" /\ Locked(t)
            /\ Apply(Settle(S1, t, "threw"))
  /\ UNCHANGED Others

\* the .catch handler of the caller of processAudioFile has saved
EscapeSaved(t) ==
  /\ tasks[t].pc = "esc_save"
  /\ Apply(Done(Cur, t, "escaped"))
  /\ UNCHANGED Others

NextIO ==
  \/ Next
  \/ \E t \in TaskIds : SaveFails(t)
  \/ \E t \in TaskIds : EscapeSaved(t)

SpecIO == Init /\ [][NextIO]_vars

\* After the restart nothing is triggered any more and no stage operation
\* throws; the scanner and the executions it starts keep running.
Quiet ==
  restarts > 0 => (events' = events /\ ~ClearStuckRoute /\ \A t \in TaskIds : ~OpThrows(t))

Progress == ((\E t \in TaskIds : TaskStep(t)) \/ ScanAfterDelay \/ ProbeDone) /\ Quiet

\* Crash needs an event of the budget: only the behaviours that keep the last
\* event for it contain a restart
RestartLast == (events' /= events /\ events' = MaxEvents) => restarts' /= restarts

LiveSpec == Init /\ [][Next /\ Quiet /\ RestartLast]_vars /\ WF_vars(Progress)

\* The process has just started with the interrupted job of InitPartial; an
\* ffmpeg child of the previous process may be alive.  Requests arrive only
\* during the scanner's grace delay, before the scanner inspects the job.
InitScan ==
  /\ job \in {PartialJob("processing"), PartialJob("pending")}
  /\ disk = job
  /\ processingLocks = [i \in Steps |-> NoHolder]
  /\ tasks = [t \in TaskIds |-> IdleTask]
  /\ joinOrder = <<>>
  /\ events = 1
  /\ autoResumeHasRun = TRUE
  /\ scanner = "delay"
  /\ extAlive \in BOOLEAN
  /\ restarts = 0
  /\ forcedSteps = {}
  /\ opCount = [i \in Steps |-> 0]
  /\ bootProcessing = {2}
  /\ strayChunks = NoHolder
  /\ store = StoreDown

\* a request is handled in this step only if the scanner has not inspected yet
BeforeScan == (events' /= events /\ restarts' = restarts) => scanner = "delay"

SpecScan == InitScan /\ [][Next /\ BeforeScan]_vars

\* The probe itself fails (the shell cannot be spawned, ps is missing): exec
\* calls back with an error and an empty stdout, which the callback does not
\* tell from "grep found nothing": it resolves false and the job is resumed,
\* whether or not an ffmpeg child is alive.
ProbeFails ==
  /\ scanner = "probe"
  /\ scanner' = "done"
  /\ Apply(PA_Entry([Cur EXCEPT !.tasks[0] = NewTask("pipe", "scanner", 0, FALSE)], 0))
  /\ UNCHANGED <<store, events, autoResumeHasRun, extAlive, restarts, forcedSteps,
                 bootProcessing, strayChunks>>

NextProbe == Next \/ ProbeFails

SpecProbe == InitScan /\ [][NextProbe]_vars

\* The process starts with a jobs.json written at the end of a run of
\* processAudioFile: after updateJobStep(5, 'completed') and before the
\* 'Complete job' block (every step 'completed', the job still 'processing'),
\* or while the last step was 'processing'.
AllDoneJob ==
  [UploadedJob EXCEPT !.status = "processing",
                      !.progress = RoundPct(NumSteps, NumSteps),
                      !.steps = [i \in Steps |-> CompletedStep(i)]]

LastStepJob ==
  [AllDoneJob EXCEPT !.progress = RoundPct(NumSteps - 1, NumSteps),
                     !.steps[NumSteps - 1] = InterruptedStep]

InitLate ==
  /\ job \in {AllDoneJob, LastStepJob}
  /\ disk = job
  /\ processingLocks = [i \in Steps |-> NoHolder]
  /\ tasks = [t \in TaskIds |-> IdleTask]
  /\ joinOrder = <<>>
  /\ events = 1
  /\ autoResumeHasRun = TRUE
  /\ scanner = "delay"
  /\ extAlive \in BOOLEAN
  /\ restarts = 0
  /\ forcedSteps = {}
  /\ opCount = [i \in Steps |-> 0]
  /\ bootProcessing = {i \in Steps : job.steps[i].status = "processing"}
  /\ strayChunks = NoHolder
  /\ store = StoreDown

SpecLate == InitLate /\ [][Next]_vars

\* POST /api/start-step/[jobId] with forceReprocess = true answered 400: the
\* key of the step is in getProcessingLocks(); the request is kept as a record
ForceStartRejected(i) ==
  /\ events < MaxEvents
  /\ processingLocks[i] /= NoHolder
  /\ events' = events + 1
  /\ tasks' = [tasks EXCEPT ![events + 1] =
                  [NewTask("step", "route", i, TRUE) EXCEPT !.pc = "rejected",
                                                            !.outcome = "rejected"]]
  /\ UNCHANGED <<store, job, disk, processingLocks, joinOrder, opCount, autoResumeHasRun,
                 scanner, extAlive, restarts, forcedSteps, bootProcessing, strayChunks>>

NextForce == Next \/ \E i \in Steps : ForceStartRejected(i)

SpecForce == Init /\ [][NextForce]_vars

\* ------------------------------------------------ the job table on disk
\* saveJobs: the table is serialised at the call; the writeFile that carries
\* the text is in flight until it lands.  awaiter is the job whose pipeline
\* awaits the write (NoHolder: nobody does).
SaveJobs(st, awaiter) ==
  [st EXCEPT !.writes = @ \cup {[snap |-> st.table, awaiter |-> awaiter]}]

\* the pipeline of job id is not suspended in an await saveJobs()
NotAwaiting(id) == \A w \in store.writes : w.awaiter /= id

\* module load: export const jobs = loadJobsSync()
StoreBoot ==
  /\ store.up = "down"
  /\ LET loaded == LoadJobsSync(store.file)
     IN  store' = [store EXCEPT !.table = loaded.table,
                                !.up = IF loaded.threw THEN "threw" ELSE "up"]
  /\ UNCHANGED jobVars

\* POST /api/upload: jobs.set(jobId, processingJob); await saveJobs()
StoreUpload(id) ==
  /\ store.up = "up"
  /\ store.table[id] = NoVal
  /\ Cardinality(store.writes) < MaxWrites
  /\ store' = SaveJobs([store EXCEPT !.table[id] = 1], id)
  /\ UNCHANGED jobVars

\* updateJobStep of job id: the record changes, await saveJobs()
StoreUpdateJobStep(id) ==
  /\ store.up = "up"
  /\ store.table[id] \in 1 .. (MaxVersion - 1)
  /\ NotAwaiting(id)
  /\ Cardinality(store.writes) < MaxWrites
  /\ store' = SaveJobs([store EXCEPT !.table[id] = @ + 1], id)
  /\ UNCHANGED jobVars

\* onProgress of the visuals of job id: the details change,
\* saveJobs().catch(console.error) is not awaited
StoreOnProgress(id) ==
  /\ store.up = "up"
  /\ store.table[id] \in 1 .. (MaxVersion - 1)
  /\ NotAwaiting(id)
  /\ Cardinality(store.writes) < MaxWrites
  /\ store' = SaveJobs([store EXCEPT !.table[id] = @ + 1], NoHolder)
  /\ UNCHANGED jobVars

\* a writeFile in flight replaces the content of jobs.json and resolves;
\* writes in flight together land in any order
WriteLands(w) ==
  /\ store.up = "up"
  /\ w \in store.writes
  /\ store' = [store EXCEPT !.file = FileOf(w.snap), !.writes = @ \ {w}]
  /\ UNCHANGED jobVars

\* a writeFile in flight rejects: the open failed and jobs.json is as it
\* was, or the open with flag 'w' had truncated it before the write failed;
\* saveJobs rethrows and the table in memory keeps the mutation
WriteFails(w) ==
  /\ store.up = "up"
  /\ w \in store.writes
  /\ \E file \in {store.file, FileUnparseable} :
       store' = [store EXCEPT !.file = file, !.writes = @ \ {w}]
  /\ UNCHANGED jobVars

\* two writeFile calls in flight together both truncate the file and both
\* write from offset 0: the shorter text is followed by the tail of the longer
WriteTorn(w1, w2) ==
  /\ store.up = "up"
  /\ w1 \in store.writes /\ w2 \in store.writes
  /\ w1.snap /= w2.snap
  /\ store' = [store EXCEPT !.file = FileUnparseable, !.writes = @ \ {w1, w2}]
  /\ UNCHANGED jobVars

\* the process dies: the table is gone; a write in flight has landed, has
\* not touched the file yet, or has truncated it without writing
StoreCrash ==
  /\ store.up = "up"
  /\ \E file \in {store.file} \cup {FileOf(w.snap) : w \in store.writes}
                 \cup (IF store.writes = {} THEN {} ELSE {FileUnparseable}) :
       store' = [table |-> EmptyTable, file |-> file, writes |-> {}, up |-> "down"]
  /\ UNCHANGED jobVars

NextStore ==
  \/ StoreBoot
  \/ \E id \in JobIds : StoreUpload(id)
  \/ \E id \in JobIds : StoreUpdateJobStep(id)
  \/ \E id \in JobIds : StoreOnProgress(id)
  \/ \E w \in store.writes : WriteLands(w)
  \/ \E w \in store.writes : WriteFails(w)
  \/ \E w1 \in store.writes : \E w2 \in store.writes : WriteTorn(w1, w2)
  \/ StoreCrash

SpecStore == Init /\ [][NextStore]_vars

\* ------------------------------------------------------------- properties
\* task t is inside the actuallyProcessStep it registered in processingLocks
ExecPcs == {"cleanup", "op", "det_save", "comp_save", "status_save", "catch_save"}
Executing(t, i) == tasks[t].pc \in ExecPcs /\ Locked(t) /\ tasks[t].i = i

\* Executing(t, i) in the state after the step
ExecutingNext(t, i) ==
  /\ tasks'[t].pc \in ExecPcs
  /\ (tasks'[t].kind = "step" \/ tasks'[t].i = VisualStep)
  /\ tasks'[t].i = i

\* the stage operation of step i is running on behalf of task t
InFlight(i) == {t \in TaskIds : tasks[t].pc = "op" /\ tasks[t].i = i}

Returned(t) == tasks[t].psResult /= "none"

C2_OneInFlight == \A i \in Steps : Cardinality(InFlight(i)) <= 1

AllCompleted(j) == \A i \in Steps : j.steps[i].status = "completed"

\* C3: job.status is 'completed' if and only if every step is 'completed'
C3_CompletedIffAllSteps == (job.status = "completed") <=> AllCompleted(job)

\* task t invokes the stage operation of its step in this transition
OpStarts(t) == tasks[t].pc /= "op" /\ tasks'[t].pc = "op"

\* C4: the operation of step i > 0 is started only when step i-1 is
\* 'completed', unless a forced restart was requested for step i
C4_StartsInOrder ==
  [][\A t \in TaskIds :
       (OpStarts(t) /\ tasks'[t].i > 0 /\ tasks'[t].i \notin forcedSteps')
         => job'.steps[tasks'[t].i - 1].status = "completed"]_vars

\* C5: as long as no forced restart has occurred, a completed step has only
\* completed steps before it
C5_CompletedPrefix ==
  forcedSteps = {}
    => \A i, m \in Steps :
         (m < i /\ job.steps[i].status = "completed") => job.steps[m].status = "completed"

\* C6: job.progress is round(100 * completed steps / steps) in every state
C6_ProgressDerived == job.progress = RoundPct(CompletedCount(job), NumSteps)

\* C7: when the operation of step i fails, the steps before i are left as
\* they were and the job is set to 'pending', not 'failed'
C7_FailureIsolated ==
  [][\A t \in TaskIds :
       OpThrows(t)
         => /\ job'.status = "pending"
            /\ \A m \in Steps : m < tasks[t].i => job'.steps[m] = job.steps[m]]_vars

\* C8: when the operation of step i throws inside processAudioFile, step i is
\* 'failed' with the thrown message, and that invocation invokes no further
\* stage operation
C8_PipelineMarksStepFailed ==
  [][\A t \in TaskIds :
       /\ (tasks[t].kind = "pipe" /\ OpThrows(t))
            => /\ job'.steps[tasks[t].i].status = "failed"
               /\ job'.steps[tasks[t].i].error = ErrorMessage(tasks[t].i, tasks[t].k)
       /\ (tasks[t].kind = "pipe" /\ tasks[t].err /= NoVal) => ~OpStarts(t)]_vars

\* C9: processAudioFile on the freshly uploaded job, with no operation throwing
\* and nothing else triggered, has run every operation once and leaves every
\* step and the job 'completed', progress 100, completedAt and outputPath set
C9_FreshRunCompletesAll ==
  (events = 1 /\ restarts = 0 /\ tasks[1].kind = "pipe" /\ tasks[1].pc = "done"
     /\ tasks[1].outcome = "ok")
    => /\ AllCompleted(job)
       /\ \A i \in Steps : opCount[i] = 1
       /\ job.status = "completed" /\ job.progress = 100
       /\ job.completedAt /\ job.outputPath

\* jobs.json read at the restart had step 2 'processing' and no ffmpeg child
\* of the job is alive when the scanner wakes up
ResumeCase == restarts = 1 /\ scanner = "delay" /\ 2 \in bootProcessing /\ ~extAlive

\* C10: in that case the scanner resumes the job, the operation of step 2 is
\* executed exactly once and the job reaches 'completed'
C10_ResumeCompletes ==
  /\ ResumeCase ~> (job.status = "completed" /\ opCount[2] = 1)
  /\ [](2 \in bootProcessing => opCount[2] <= 1)

\* the run started by the scanner has re-executed step 2 and finished the job
C10_Witness ==
  /\ 2 \in bootProcessing
  /\ tasks[0].origin = "scanner" /\ tasks[0].pc = "done" /\ tasks[0].outcome = "ok"
  /\ job.status = "completed" /\ opCount[2] = 1

\* the resume point of job j as the specification words it: the first step
\* that is 'processing', or if there is none the first step not 'completed'
HasResumePoint(j) == \E i \in Steps : j.steps[i].status /= "completed"
ResumePoint(j) ==
  IF \E i \in Steps : j.steps[i].status = "processing"
    THEN CHOOSE i \in Steps : /\ j.steps[i].status = "processing"
                              /\ \A m \in 0 .. (i - 1) : j.steps[m].status /= "processing"
    ELSE CHOOSE i \in Steps : /\ j.steps[i].status /= "completed"
                              /\ \A m \in 0 .. (i - 1) : j.steps[m].status = "completed"

\* task t, a processAudioFile invocation, enters its loop in this transition
EntersLoop(t) ==
  tasks[t].pc = "pa_save" /\ tasks'[t].kind = "pipe" /\ tasks'[t].pc /= "pa_save"

\* C11: processAudioFile enters its loop at the resume point: the step it
\* turns to first is the first 'processing' step, or else the first step not
\* 'completed' (for step 3 that is the call of processSpecificStep, which is
\* awaited or has returned), it invokes no operation of an earlier step, and
\* its step index never goes back afterwards
C11_StartsAtResumePoint ==
  [][\A t \in TaskIds :
       /\ (EntersLoop(t) /\ HasResumePoint(job))
            => LET r == ResumePoint(job)
               IN  /\ tasks'[t].i >= r
                   /\ \A m \in 0 .. (r - 1) : opCount'[m] = opCount[m]
                   /\ \/ tasks'[t].i = r /\ tasks'[t].pc \in {"proc_save", "op", "join"}
                      \/ r = VisualStep /\ tasks'[t].psResult = "false"
       /\ (tasks[t].kind = "pipe" /\ tasks'[t].kind = "pipe")
            => tasks'[t].i >= tasks[t].i]_vars

\* after a restart the job was reloaded with step 0 'completed', and the run
\* the scanner started has invoked the operation of step 1 and not of step 0
C11_Witness ==
  /\ restarts = 1
  /\ tasks[0].origin = "scanner" /\ tasks[0].ranOp
  /\ job.steps[0].status = "completed"
  /\ opCount[0] = 0 /\ opCount[1] = 1

\* task t is a forced restart that was requested for a step then 'completed'
\* with details
RestartOfCompleted(t) == tasks[t].force /\ tasks[t].fromCompleted

\* C12: a forced restart of a step that was 'completed' with details has
\* cleared details and completedAt and left no error, at the reset and still
\* when its execution invokes the stage operation
C12_ClearedBeforeReexecution ==
  [][\A t \in TaskIds :
       /\ (tasks[t].pc = "idle" /\ tasks'[t].pc = "rr_save" /\ RestartOfCompleted(t)')
            => /\ job'.steps[tasks'[t].i].details = NoVal
               /\ ~job'.steps[tasks'[t].i].completedAt
               /\ job'.steps[tasks'[t].i].error = NoVal
       /\ (OpStarts(t) /\ RestartOfCompleted(t)')
            => /\ job'.steps[tasks'[t].i].details = NoVal
               /\ ~job'.steps[tasks'[t].i].completedAt
               /\ job'.steps[tasks'[t].i].error = NoVal]_vars

\* a start-step request without forceReprocess for step i of task slot t is
\* received in this transition
PlainRequest(t, i) ==
  /\ tasks[t].kind = "none" /\ tasks'[t].kind = "step"
  /\ tasks'[t].origin = "route" /\ ~tasks'[t].force /\ tasks'[t].i = i

\* C13: a start-step request without forceReprocess for step i > 0, received
\* while some earlier step is not 'completed', is rejected: job, persisted
\* job, locks and operation counts are unchanged, and the rejected request
\* never starts anything later
C13_RejectsOutOfOrder ==
  [][\A t \in TaskIds :
       /\ \A i \in Steps :
            (PlainRequest(t, i) /\ i > 0
               /\ \E m \in 0 .. (i - 1) : job.steps[m].status /= "completed")
              => /\ tasks'[t].pc = "rejected"
                 /\ UNCHANGED <<job, disk, processingLocks, opCount, joinOrder>>
       /\ tasks[t].pc = "rejected" => tasks'[t].pc \in {"rejected", "idle"}]_vars

\* the request for step 1 of the freshly uploaded job was rejected
C13_Witness ==
  /\ tasks[1].pc = "rejected" /\ tasks[1].i = 1
  /\ job = UploadedJob /\ opCount[1] = 0

\* task t is a processAudioFile invocation that passed its entry check and
\* is still in its loop (neither returned nor in its last saveJobs)
PipelineRunning(t) ==
  /\ tasks[t].kind = "pipe"
  /\ tasks[t].pc \notin {"idle", "rp_save", "done", "pa_catch_save", "pa_done_save"}

\* C14: processAudioFile called while another invocation for the job is in
\* flight starts no stage operation: two invocations in flight at once have
\* never both invoked a stage operation
C14_SecondCallStartsNothing ==
  \A t, u \in TaskIds :
    (t /= u /\ PipelineRunning(t) /\ PipelineRunning(u))
      => ~(tasks[t].ranOp /\ tasks[u].ranOp)

\* the execution of task t has ended successfully with strategy k of step i and
\* has marked the step 'completed'; it still holds the key of the step
CompletedWith(t, i, k) ==
  /\ Locked(t) /\ tasks[t].i = i /\ tasks[t].k = k
  /\ tasks[t].pc \in {"comp_save", "status_save"}

\* C15: when the first two strategies of Visual Generation threw and the third
\* succeeded, the step is 'completed' with the details of the third strategy
\* and without step.error
C15_ThirdStrategyResult ==
  \A t \in TaskIds :
    CompletedWith(t, VisualStep, 3)
      => /\ job.steps[VisualStep].status = "completed"
         /\ job.steps[VisualStep].details = Details(VisualStep, 3)
         /\ job.steps[VisualStep].error = NoVal

\* task t's execution has had a strategy succeed
Succeeded(t) == tasks[t].pc \in {"det_save", "comp_save", "status_save"}

\* C16: the strategies of one execution are attempted in list order, each
\* after the previous one failed; work of two strategies of one execution
\* never runs at the same time; no strategy is attempted after a success
C16_OneStrategyAtATime ==
  [][\A t \in TaskIds :
       /\ (tasks[t].pc = "op" /\ tasks'[t].pc = "op" /\ tasks'[t].k /= tasks[t].k)
            => tasks'[t].k = tasks[t].k + 1
       /\ Succeeded(t) => tasks'[t].pc /= "op"
       /\ ~(strayChunks' = t /\ tasks'[t].pc = "op" /\ tasks'[t].k > 1)]_vars

\* C17: when the last strategy of a step with a fallback chain throws, the
\* step becomes 'failed' and step.error is the message of that last strategy
C17_ExhaustionFailsStep ==
  [][\A t \in TaskIds :
       (OpThrows(t) /\ NumStrategies(tasks[t].i) > 1)
         => /\ job'.steps[tasks[t].i].status = "failed"
            /\ job'.steps[tasks[t].i].error
                 = ErrorMessage(tasks[t].i, NumStrategies(tasks[t].i))]_vars

\* the execution that task t registered for the key of step i settles in this
\* step: its promise is fulfilled or rejected
Settles(t, i) == Executing(t, i) /\ ~Executing(t, i)'

\* C18: when the execution registered for a key settles, by a returned value
\* or by a thrown error, its entry is deleted from processingLocks: the key is
\* then free, or holds an execution started after the settlement (the retry
\* of a caller that had joined); an entry of processingLocks always stands
\* for an execution that has not settled, so a caller never joins a settled
\* execution and a caller that finds the key free starts its own
C18_ReleasedOnSettle ==
  [][  /\ \A t \in TaskIds : \A i \in Steps :
          Settles(t, i) =>
            LET h == processingLocks'[i]
            IN  h = NoHolder \/ (h /= t /\ ~Executing(h, i) /\ ExecutingNext(h, i))
      /\ \A i \in Steps :
          processingLocks'[i] /= NoHolder => ExecutingNext(processingLocks'[i], i)
      /\ \A t \in TaskIds :
          (tasks[t].pc /= "join" /\ tasks'[t].pc = "join")
            => /\ processingLocks[tasks'[t].i] /= NoHolder
               /\ tasks'[t].waitOn = processingLocks[tasks'[t].i]
               /\ Executing(tasks'[t].waitOn, tasks'[t].i)
    ]_vars

\* an execution of a step threw, and a later request for the same step found
\* the key free and registered an execution of its own
C18_Witness ==
  \E t \in TaskIds : \E u \in TaskIds \ {t} :
    /\ tasks[t].psResult = "threw" /\ tasks[t].pc = "done"
    /\ tasks[u].i = tasks[t].i /\ Executing(u, tasks[u].i)
    /\ tasks[u].joined = NoHolder
    /\ processingLocks[tasks[u].i] = u

\* the probe's callback calls processAudioFile in this step
ScannerInvokes ==
  /\ scanner = "probe" /\ scanner' = "done"
  /\ tasks'[0] /= tasks[0] /\ tasks'[0].origin = "scanner"

\* C19: the scanner does not call processAudioFile for a job that has a
\* 'processing' step whose key is in processingLocks, nor for a job of which
\* an ffmpeg process outside this process is alive
C19_ScannerSkipsActiveJobs ==
  [][ScannerInvokes => (~HasActiveStep /\ ~extAlive)]_vars

\* the scanner calls processAudioFile in this step
StartsScannerRun == tasks[0].origin /= "scanner" /\ tasks'[0].origin = "scanner"

\* C20: within one lifetime of the process the scanner goes once from the
\* grace delay to the probe to the end; it calls processAudioFile only in the
\* probe's callback, so at most once, and once the scan has ended nothing
\* starts it again: resetAutoResumeFlag changes the flag and nothing else
C20_ScanOncePerLifetime ==
  [][restarts' = restarts =>
       /\ scanner = "done" => (scanner' = "done" /\ ~StartsScannerRun)
       /\ scanner = "probe" => scanner' \in {"probe", "done"}
       /\ scanner = "delay" => (scanner' \in {"delay", "probe", "done"} /\ ~StartsScannerRun)
       /\ autoResumeHasRun' /= autoResumeHasRun
            => (scanner' = scanner /\ tasks' = tasks /\ job' = job)
    ]_vars

\* after a restart the scanner resumed the job once; the flag was reset, a
\* later request ran, and the scan has not started again
C20_Witness ==
  /\ restarts = 1 /\ ~autoResumeHasRun /\ scanner = "done"
  /\ tasks[0].origin = "scanner" /\ tasks[0].pc = "done"
  /\ tasks[2].kind /= "none" /\ tasks[2].pc = "done"

\* processAudioFile, run by task t, reaches step i in this step and begins it
PipeBegins(t, i) ==
  /\ tasks'[t].kind = "pipe" /\ tasks'[t].i = i
  /\ tasks'[t].pc \in {"proc_save", "op", "join"}
  /\ (tasks[t].i /= i \/ tasks[t].pc \in {"idle", "rp_save", "pa_save"})

\* a forced restart of step i is accepted in this step
ForcedRestartOf(i) ==
  \E t \in TaskIds :
    /\ tasks[t].pc = "idle" /\ tasks'[t].pc = "rr_save"
    /\ tasks'[t].force /\ tasks'[t].i = i

\* C24: processAudioFile begins only steps that are not 'completed' when it
\* reaches them, and the steps it passes over keep their status and their
\* operation is not invoked; a step goes from 'completed' to 'processing' only
\* in a forced restart
C24_CompletedNotRevisited ==
  [][restarts' = restarts =>
       /\ \A t \in TaskIds : \A i \in Steps :
            PipeBegins(t, i) =>
              /\ job.steps[i].status /= "completed"
              /\ \A m \in Steps :
                   (job.steps[m].status = "completed" /\ m /= i)
                     => (job'.steps[m].status = "completed" /\ opCount'[m] = opCount[m])
       /\ \A i \in Steps :
            (job.steps[i].status = "completed" /\ job'.steps[i].status = "processing")
              => ForcedRestartOf(i)
    ]_vars

\* the scanner's run passed over the completed steps 0 and 1 and ran step 2
C24_Witness ==
  /\ tasks[0].kind = "pipe" /\ tasks[0].i = 2 /\ tasks[0].pc = "op"
  /\ opCount[0] = 0 /\ opCount[1] = 0
  /\ job.steps[0].status = "completed" /\ job.steps[1].status = "completed"

\* C26: a step carries an error message only while its status is 'failed'
C26_ErrorOnlyWhileFailed ==
  \A i \in Steps : job.steps[i].error /= NoVal => job.steps[i].status = "failed"

\* a request for step 0 failed and left the step 'failed' with its message;
\* the next request for step 0 is running the operation, the message is gone
C26_Witness ==
  /\ tasks[1].psResult = "threw" /\ tasks[1].i = 0
  /\ tasks[2].i = 0 /\ tasks[2].pc = "op"
  /\ job.steps[0].status = "processing" /\ job.steps[0].error = NoVal

\* C27: when an operation sets job.status to 'processing' the job has no
\* error afterwards, and a job that is 'completed' carries no error
C27_JobErrorCleared ==
  [][/\ (job.status /= "processing" /\ job'.status = "processing")
          => job'.error = NoVal
     /\ job'.status = "completed" => job'.error = NoVal
    ]_vars

\* C28: job.outputPath is set only if every step of the job is 'completed'
C28_OutputOnlyWhenAllCompleted ==
  job.outputPath => \A i \in Steps : job.steps[i].status = "completed"

\* a step taken for a start-step request on step i, forced or not: the route
\* accepts it, or its restartSpecificStep / processSpecificStep goes on
RetryActs(i) ==
  \/ StartStepRoute(i)
  \/ ForceStartRoute(i)
  \/ \E t \in TaskIds : tasks[t].kind = "step" /\ tasks[t].i = i /\ TaskStep(t)

\* C23: a step taken for a start-step request on step i, whether the attempt
\* succeeds or fails, leaves every other step that is 'completed' as it is:
\* status, progress, details, error and timestamps
C23_RetryLeavesOthers ==
  [][\A i \in Steps : \A m \in Steps \ {i} :
       (RetryActs(i) /\ job.steps[m].status = "completed")
         => job'.steps[m] = job.steps[m]
    ]_vars

\* the failed step 2 was retried and the retry has settled, by success or by
\* another failure; steps 0 and 1 are as they were
C23_Witness ==
  \E t \in TaskIds :
    /\ tasks[t].kind = "step" /\ tasks[t].i = 2 /\ tasks[t].pc = "done"
    /\ tasks[t].psResult \in {"true", "threw"}
    /\ job.steps[0] = CompletedStep(0) /\ job.steps[1] = CompletedStep(1)

\* C25: while the process runs, every change of a step's status is one of
\* pending to processing, processing to completed, processing to failed,
\* failed to processing, completed to processing, the last one only in a
\* forced restart
C25_OnlyAllowedTransitions ==
  [][LET allowed == {<<"pending", "processing">>, <<"processing", "completed">>,
                     <<"processing", "failed">>, <<"failed", "processing">>,
                     <<"completed", "processing">>}
     IN  \A i \in Steps :
           (restarts' = restarts /\ job'.steps[i].status /= job.steps[i].status)
             => /\ <<job.steps[i].status, job'.steps[i].status>> \in allowed
                /\ job.steps[i].status = "completed" => ForcedRestartOf(i)
    ]_vars

\* C29: when a rejected saveJobs ends a run of processAudioFile, in its try
\* block or outside it, the job is 'failed' and job.error is the message of
\* the rejection once the error has been handled
C29_IOErrorFailsJob ==
  [][\A t \in TaskIds :
       (tasks[t].kind = "pipe" /\ tasks'[t].kind = "pipe"
          /\ tasks'[t].err = IOErrorMessage
          /\ tasks[t].pc \notin {"pa_catch_save", "esc_save"}
          /\ tasks'[t].pc \in {"pa_catch_save", "esc_save"})
         => (job'.status = "failed" /\ job'.error = IOErrorMessage)
    ]_vars

\* the first saveJobs of processAudioFile, outside its try block, was
\* rejected; the caller's handler has marked the job failed
C29_Witness ==
  \E t \in TaskIds :
    /\ tasks[t].kind = "pipe" /\ tasks[t].pc = "esc_save"
    /\ ~tasks[t].ranOp
    /\ job.status = "failed" /\ job.error = IOErrorMessage

\* the error of a stage operation reaches processAudioFile, run by task t
StageErrorReaches(t) ==
  /\ tasks[t].kind = "pipe" /\ tasks'[t].kind = "pipe"
  /\ tasks'[t].err \notin {NoVal, IOErrorMessage}
  /\ tasks[t].pc \notin {"pa_catch_save", "esc_save"}
  /\ tasks'[t].pc \in {"pa_catch_save", "esc_save"}

\* C30: the error of a stage operation is caught by processAudioFile, which
\* records it in the job and returns to its caller; what reaches the .catch
\* handler of a caller is never the error of a stage operation
C30_StageErrorCaught ==
  [][\A t \in TaskIds :
       /\ StageErrorReaches(t)
            => /\ tasks'[t].pc = "pa_catch_save"
               /\ job'.status = "failed" /\ job'.error = tasks'[t].err
       /\ (tasks[t].pc = "pa_catch_save" /\ tasks'[t].pc = "done")
            => tasks'[t].outcome = "caught"
       /\ tasks'[t].pc = "esc_save" => tasks'[t].err = IOErrorMessage
    ]_vars

\* the run started by the scanner hit the error of a stage operation and has
\* returned; the job is 'failed' with the message of that error
C30_Witness ==
  /\ tasks[0].origin = "scanner" /\ tasks[0].pc = "done"
  /\ tasks[0].outcome = "caught"
  /\ job.status = "failed"
  /\ job.error \notin {NoVal, IOErrorMessage, TypeErrorMessage}

\* the table that a process starting now would load from jobs.json
Persisted == LoadJobsSync(store.file).table

\* C21: once every saveJobs call has completed, jobs.json holds the job
\* table that is in memory, also when saves of different jobs or the
\* un-awaited progress saves of one step overlapped
C21_SavesNotLost ==
  (store.up = "up" /\ store.writes = {}) => Persisted = store.table

\* the process starts while jobs.json is missing or does not parse
BootsFromBadFile ==
  /\ store.up = "down" /\ store'.up /= "down"
  /\ store.file.kind \in {"missing", "unparseable"}

\* C22: a process that starts while jobs.json is missing or does not parse
\* comes up with an empty job table, and no error leaves loadJobsSync
C22_BadFileLoadsEmpty ==
  [][BootsFromBadFile => (store'.up = "up" /\ store'.table = EmptyTable)]_vars

\* the process came up with an empty table from a jobs.json that a crash
\* or two overlapping writes had left unparseable
C22_Witness ==
  /\ store.up = "up" /\ store.file = FileUnparseable
  /\ store.table = EmptyTable /\ store.writes = {}

\* C31: a saveJobs that fails leaves the mutation that preceded it in the
\* table in memory, and leaves in jobs.json the table of the last save that
\* succeeded
C31_FailedSaveKeepsBoth ==
  [][(\E w \in store.writes : WriteFails(w))
       => (store'.table = store.table /\ Persisted' = Persisted)]_vars

\* C32: the run started by the scanner starts no stage operation of a step
\* while an execution of that step, triggered before the scanner inspected
\* the job, is running its operation (under SpecScan every request precedes
\* the inspection)
C32_ScannerStartsNoSecond ==
  [][(OpStarts(0) /\ tasks'[0].origin = "scanner")
       => InFlight(tasks'[0].i) \ {0} = {}]_vars

\* C33: when the probe of the process table fails, so that it is not known
\* whether an ffmpeg process of the job is alive, the scanner does not call
\* processAudioFile
C33_ProbeErrorSkips ==
  [][ProbeFails => ~StartsScannerRun]_vars

\* C34: while a processAudioFile invocation is in its loop, job.status is
\* 'processing', so that POST /api/restart-processing answers 'Job already
\* processing' during the whole run
C34_ProcessingDuringRun ==
  \A t \in TaskIds : PipelineRunning(t) => job.status = "processing"

\* processAudioFile, run by task t, leaves its first saveJobs in this step
\* and finds every step 'completed'
EntersAllCompleted(t) ==
  /\ tasks[t].kind = "pipe" /\ tasks[t].pc = "pa_save" /\ tasks'[t].pc /= "pa_save"
  /\ AllCompleted(job)

\* C35: processAudioFile on a job whose steps are all 'completed' invokes no
\* stage operation and leaves the job 'completed', not 'failed'
C35_AllCompletedStaysCompleted ==
  [][\A t \in TaskIds :
       EntersAllCompleted(t)
         => (job'.status = "completed" /\ tasks'[t].pc /= "op")]_vars

\* C36: while an execution started through processSpecificStep is in flight,
\* the entry of its key in processingLocks is the one registered for it
C36_KeyHeldWhileExecuting ==
  \A t \in TaskIds : \A i \in Steps :
    Executing(t, i) => processingLocks[i] = t

\* C37: a step that clearStuckProcessingStates has set back to 'pending' is
\* not marked 'completed' or 'failed' by an execution that was in flight
\* before the reset: a 'pending' step leaves 'pending' only by being set
\* 'processing' by a new trigger
C37_ResetStepStaysPending ==
  [][\A i \in Steps :
       job.steps[i].status = "pending"
         => job'.steps[i].status \in {"pending", "processing"}]_vars

\* a start-step request for step i, forced or not, is received in this
\* transition in task slot t
StepRequest(t, i) ==
  /\ tasks[t].kind = "none" /\ tasks'[t].kind = "step"
  /\ tasks'[t].origin = "route" /\ tasks'[t].i = i

\* C38: a start-step request for a step whose key is in processingLocks is
\* rejected, with forceReprocess too: the job, the persisted job, the locks
\* and the operation counts are unchanged, and the rejected request never
\* starts anything later
C38_LockedStepRejected ==
  [][\A t \in TaskIds :
       /\ \A i \in Steps :
            (StepRequest(t, i) /\ processingLocks[i] /= NoHolder)
              => /\ tasks'[t].pc = "rejected"
                 /\ UNCHANGED <<job, disk, processingLocks, opCount, joinOrder>>
       /\ tasks[t].pc = "rejected" => tasks'[t].pc \in {"rejected", "idle"}]_vars

\* a forced request for a step was rejected while task 1 was executing the
\* step under its key
C38_Witness ==
  /\ tasks[2].pc = "rejected" /\ tasks[2].force
  /\ processingLocks[tasks[2].i] = 1 /\ Executing(1, tasks[2].i)

\* the cleanupJobFiles called by the forced execution of task t returns in
\* this step
CleanupReturns(t) == tasks[t].pc = "cleanup" /\ tasks'[t].pc /= "cleanup"

\* C39: the cleanup of a forced restart of step i leaves in place the output
\* files of the other steps that remain 'completed'
C39_ForcedRestartKeepsOutputs ==
  [][\A t \in TaskIds :
       CleanupReturns(t)
         => (OutputsOf(job') \ {tasks[t].i}) \subseteq CleanupJobFiles(OutputsOf(job))]_vars

====
